---- MODULE Spec2Model ----
(***************************************************************************)
(* Model of the crawl engine of seo-sage: services/crawler.py,             *)
(* class WebsiteCrawler (crawl, _process_url, _should_visit_url,           *)
(* _extract_links, _count_status_codes).                                   *)
(*                                                                         *)
(* Strings that the code inspects by prefix, suffix or containment (URLs)  *)
(* are sequences of tokens: the concatenation of the tokens is the Python  *)
(* string, and the tokens are cut so that startswith / endswith / "in" on  *)
(* the strings coincide with the same tests on the token sequences.        *)
(***************************************************************************)
EXTENDS Integers, Sequences, FiniteSets, TLC

VARIABLES
    cfg,            \* constructor arguments and the start_url given to crawl
    pc,             \* position of crawl(): "start", "loop", "gather", "returned", "raised"
    base_url,       \* crawl(): base_url
    visited_urls,   \* crawl(): visited_urls
    pages_data,     \* crawl(): pages_data, URL -> PageData
    error_urls,     \* crawl(): error_urls, URL -> message
    urls_to_visit,  \* crawl(): urls_to_visit, sequence of [url, depth]
    site_structure, \* crawl(): site_structure, URL -> sequence of links
    semaphore,      \* free permits of the asyncio.Semaphore
    current_batch,  \* crawl(): current_batch of the round in progress
    tasks,          \* the _process_url coroutines of the round in progress, each with
                    \* its state, its return value and the events it went through
    result,         \* the returned CrawlResult (<<>> before the return)
    served,         \* history: URL -> the response the site gave to its fetch
    dispatched,     \* history: the [url, depth] handed to _process_url, in order
    completed,      \* history: the tasks of the latest round, in completion order
    rounds,         \* history: the number of iterations of the while loop begun
    probe           \* a call of a pure method outside a crawl: its arguments and result

vars == <<cfg, pc, base_url, visited_urls, pages_data, error_urls, urls_to_visit,
          site_structure, semaphore, current_batch, tasks, result, served, dispatched,
          completed, rounds, probe>>

(***************************************************************************)
(* Bounds of the model.                                                    *)
(***************************************************************************)
MaxPagesBound == 3
MaxConcBound == 3
MaxDepthBound == 2
\* the iterations of the while loop that are counted
MaxRounds == 12

(***************************************************************************)
(* The URLs of the modelled sites.                                         *)
(***************************************************************************)
Origin == <<"https", "://", "example.com">>
Home == Origin \o <<"/">>
About == Home \o <<"about">>
Contact == Home \o <<"contact">>
Blog == Home \o <<"blog">>
Team == Home \o <<"team">>
Post == Home \o <<"post">>
Pdf == Home \o <<"doc", ".pdf">>
AboutFrag == About \o <<"#", "staff">>
Other == <<"https", "://", "other.com", "/">>
NotAUrl == <<"not-a-url">>
RelAbout == <<"/", "about">>
RelTeam == <<"/", "team">>
RelContact == <<"/", "contact">>
OtherRoot == <<"https", "://", "other.com">>
Blank == <<" ">>
MailTo == <<"mailto:", "info@example.com">>

\* ---------------------------------------------------------------- strings

StartsWith(s, p) == Len(p) <= Len(s) /\ SubSeq(s, 1, Len(p)) = p

EndsWith(s, t) == Len(s) >= 1 /\ s[Len(s)] = t

Contains(s, t) == \E i \in 1..Len(s) : s[i] = t

\* str.lower() on one token
LowerTok(t) ==
    CASE t = ".PDF" -> ".pdf"
      [] t = ".JPG" -> ".jpg"
      [] OTHER -> t

Lower(s) == [i \in 1..Len(s) |-> LowerTok(s[i])]

\* index of the first token of s, from position i on, that is in stops; Len(s)+1 if none
RECURSIVE FirstOf(_, _, _)
FirstOf(s, i, stops) ==
    IF i > Len(s) THEN Len(s) + 1
    ELSE IF s[i] \in stops THEN i
    ELSE FirstOf(s, i + 1, stops)

\* urlparse(url).scheme and .netloc, and f"{scheme}://{netloc}"
UrlScheme(url) == IF Len(url) >= 2 /\ url[2] = "://" THEN <<url[1]>> ELSE <<>>

UrlNetloc(url) ==
    IF Len(url) >= 2 /\ url[2] = "://"
    THEN SubSeq(url, 3, FirstOf(url, 3, {"/", "?", "#"}) - 1)
    ELSE <<>>

BaseUrlOf(start_url) == UrlScheme(start_url) \o <<"://">> \o UrlNetloc(start_url)

\* a slip in line 347: the fragment is kept
KeepFragment(href) == href

\* href.split("#")[0]
StripFragment(href) == SubSeq(href, 1, FirstOf(href, 1, {"#"}) - 1)

\* ------------------------------------------------------ _should_visit_url

skip_extensions ==
    {".jpg", ".jpeg", ".png", ".gif", ".pdf", ".doc", ".docx",
     ".xls", ".xlsx", ".ppt", ".pptx", ".zip", ".tar", ".gz",
     ".mp3", ".mp4", ".avi", ".mov", ".wmv", ".css", ".js"}

\* a slip in lines 282-290: the extension test is missing
should_visit_url_without_extension_test(url, base) ==
    IF ~StartsWith(url, base) THEN FALSE
    ELSE IF Contains(url, "#") THEN FALSE
    ELSE TRUE

\* a slip in lines 278-280: the fragment test is missing
should_visit_url_without_fragment_test(url, base) ==
    IF ~StartsWith(url, base) THEN FALSE
    ELSE IF \E ext \in skip_extensions : EndsWith(Lower(url), ext) THEN FALSE
    ELSE TRUE

should_visit_url(url, base) ==
    IF ~StartsWith(url, base) THEN FALSE
    ELSE IF Contains(url, "#") THEN FALSE
    ELSE IF \E ext \in skip_extensions : EndsWith(Lower(url), ext) THEN FALSE
    ELSE TRUE

\* --------------------------------------------------------- _extract_links

StartsWithAny(s, prefixes) == Len(s) >= 1 /\ s[1] \in prefixes

\* href.startswith(("http://", "https://"))
IsAbsoluteHttp(href) == Len(href) >= 2 /\ href[1] \in {"http", "https"} /\ href[2] = "://"

\* position of the last "/" token of s (0 if none)
RECURSIVE LastSlash(_, _)
LastSlash(s, i) ==
    IF i = 0 THEN 0
    ELSE IF s[i] = "/" THEN i
    ELSE LastSlash(s, i - 1)

\* a slip in line 344: the href is appended to the page URL
UrlJoinAppend(current_url, href) == current_url \o href

\* urljoin(current_url, href) for an href that is not an absolute http(s) URL
UrlJoin(current_url, href) ==
    IF href[1] = "/" THEN BaseUrlOf(current_url) \o href
    ELSE IF href[1] = "#" THEN StripFragment(current_url) \o href
    ELSE SubSeq(current_url, 1, LastSlash(current_url, Len(current_url))) \o href

InSeq(x, s) == \E i \in 1..Len(s) : s[i] = x

\* the body of the loop of _extract_links for one anchor: acc = [internal, external]
extract_one_link(href, base, current_url, acc) ==
    IF href = <<>> \/ StartsWithAny(href, {"javascript:", "mailto:", "tel:"}) THEN acc
    ELSE
        LET resolved == IF IsAbsoluteHttp(href) THEN href ELSE UrlJoin(current_url, href)
            clean == StripFragment(resolved)
        IN  IF StartsWith(clean, base)
            THEN IF InSeq(clean, acc.internal) THEN acc
                 ELSE [acc EXCEPT !.internal = Append(@, clean)]
            ELSE IF InSeq(clean, acc.external) THEN acc
                 ELSE [acc EXCEPT !.external = Append(@, clean)]

RECURSIVE extract_links_from(_, _, _, _, _)
extract_links_from(hrefs, i, base, current_url, acc) ==
    IF i > Len(hrefs) THEN acc
    ELSE extract_links_from(hrefs, i + 1, base, current_url,
                            extract_one_link(hrefs[i], base, current_url, acc))

\* _extract_links(soup, base_url, current_url): hrefs are the href attributes of
\* the anchors of the document, in document order
extract_links(hrefs, base, current_url) ==
    extract_links_from(hrefs, 1, base, current_url, [internal |-> <<>>, external |-> <<>>])

\* ------------------------------------------------------------ _process_url

\* Optional values: <<>> is None, <<v>> is the value v
None == <<>>
Some(v) == <<v>>

\* a slip in line 210: the header is compared as it was sent
ContentTypeAsSent(ct) == ct

\* "text/html" in content_type.lower()
LowerContentType(ct) == IF ct = "Text/HTML" THEN "text/html" ELSE ct

\* a slip in lines 209-211: the test of the header is missing
AnyContentType(ct) == TRUE

IsHtmlContentType(ct) ==
    LowerContentType(ct) \in {"text/html", "text/html; charset=utf-8"}

\* An HTML string is [nodes, length]: the elements BeautifulSoup finds in it, in
\* document order, and len(html). A node is [tag, within, value], where within
\* names the enclosing script, style, header, footer or nav element, if any
\* ("body" otherwise), and value is the href of an anchor.
parse(html) == html.nodes

RemovedTags == {"script", "style", "header", "footer", "nav"}

\* the soup after the decompose() calls of _extract_content, lines 302-303
decompose(soup) ==
    SelectSeq(soup, LAMBDA n : n.tag \notin RemovedTags /\ n.within \notin RemovedTags)

\* str.strip() of an attribute value
RECURSIVE Strip(_)
Strip(s) ==
    IF s = <<>> THEN s
    ELSE IF Head(s) = " " THEN Strip(Tail(s))
    ELSE IF s[Len(s)] = " " THEN Strip(SubSeq(s, 1, Len(s) - 1))
    ELSE s

\* [link["href"].strip() for link in soup.find_all("a", href=True)], lines 335-336
anchor_hrefs(soup) ==
    LET anchors == SelectSeq(soup, LAMBDA n : n.tag = "a")
    IN  [i \in 1..Len(anchors) |-> Strip(anchors[i].value)]

\* _extract_headings: [heading.text.strip() for heading in soup.find_all(heading_type)]
extract_headings(soup, heading_type) ==
    LET headings == SelectSeq(soup, LAMBDA n : n.tag = heading_type)
    IN  [i \in 1..Len(headings) |-> Strip(headings[i].value)]

\* json.loads(script.string), line 388: a one-member object {"key": "value"} is
\* parsed to the record of its member, [] to the empty list, and any other text
\* raises (None)
json_loads(text) ==
    IF Len(text) = 5 /\ text[1] = "{" /\ text[3] = ":" /\ text[5] = "}"
    THEN Some([key |-> text[2], value |-> text[4]])
    ELSE IF text = <<"[", "]">> THEN Some(<<>>)
    ELSE None

\* the loop of lines 385-391 over the ld+json scripts from the i-th on
RECURSIVE schema_org_from(_, _, _)
schema_org_from(scripts, i, schema_data) ==
    IF i > Len(scripts) THEN schema_data
    ELSE IF json_loads(scripts[i].value) # None
    THEN schema_org_from(scripts, i + 1, Append(schema_data, json_loads(scripts[i].value)[1]))
    ELSE schema_org_from(scripts, i + 1, schema_data)

\* _extract_schema_org
extract_schema_org(soup) ==
    schema_org_from(SelectSeq(soup, LAMBDA n : n.tag = "script" /\ n.type = "application/ld+json"),
                    1, <<>>)

\* soup.get_text() of lines 306-311: the trimmed, non-empty texts of the elements
get_text(soup) ==
    LET texts == SelectSeq(soup, LAMBDA n : n.tag \in {"h1", "h2"} /\ Strip(n.value) # <<>>)
    IN  [i \in 1..Len(texts) |-> Strip(texts[i].value)]

\* _extract_content: the soup it leaves behind and the text it returns
extract_content(soup) ==
    [soup |-> decompose(soup), text |-> get_text(decompose(soup))]

\* lines 222-253: the extraction steps run on one soup, _extract_content first
PageDataOf(url, resp, base) ==
    LET soup == parse(resp.html)
        after_content == extract_content(soup).soup
        links == extract_links(anchor_hrefs(after_content), base, url)
    IN  [url |-> url,
         content |-> extract_content(soup).text,
         html |-> resp.html,
         h1s |-> extract_headings(after_content, "h1"),
         h2s |-> extract_headings(after_content, "h2"),
         internal_links |-> links.internal,
         external_links |-> links.external,
         schema_org |-> extract_schema_org(after_content),
         status_code |-> resp.status,
         load_time_ms |-> resp.elapsed_ms]

\* the events of one _process_url call, lines 202-219, in the order the code
\* reaches them: start_time taken (202), session.get returned the response
\* headers (205), load_time_ms computed (206), response.text() returned the
\* body (214), the coroutine returned or an exception was caught
fetch_events(resp) ==
    IF resp.exc_at = "get"
    THEN <<"request_start", "exception">>
    ELSE IF ~IsHtmlContentType(resp.content_type)
    THEN <<"request_start", "response_headers", "load_time_ms", "return">>
    ELSE IF resp.exc_at = "text"
    THEN <<"request_start", "response_headers", "load_time_ms", "exception">>
    ELSE <<"request_start", "response_headers", "load_time_ms", "body_read", "return">>

\* a slip in line 218: only codes above 404 count as errors
IsErrorStatusAbove404(status) == status > 404

\* status_code >= 400, line 218
IsErrorStatus(status) == status >= 400

\* the tuple (url, page_data, new_urls, error) that _process_url returns when the
\* site answers resp; resp.exc_at says where an exception is raised, if any:
\* "get" (session.get), "text" (response.text()) or "none"
process_url(url, resp, base) ==
    IF resp.exc_at = "get"
    THEN [url |-> url, page_data |-> None, new_urls |-> <<>>, error |-> Some(resp.exc_msg)]
    ELSE IF ~IsHtmlContentType(resp.content_type)
    THEN [url |-> url, page_data |-> None, new_urls |-> <<>>,
          error |-> Some("Not HTML content: " \o resp.content_type)]
    ELSE IF resp.exc_at = "text"
    THEN [url |-> url, page_data |-> None, new_urls |-> <<>>, error |-> Some(resp.exc_msg)]
    ELSE IF IsErrorStatus(resp.status)
    THEN [url |-> url, page_data |-> None, new_urls |-> <<>>,
          error |-> Some("HTTP status " \o ToString(resp.status))]
    ELSE LET pd == PageDataOf(url, resp, base)
         IN  [url |-> url, page_data |-> Some(pd), new_urls |-> pd.internal_links,
              error |-> None]

\* ------------------------------------------------------------- the sites

Response(exc_at, exc_msg, content_type, status, html, elapsed_ms) ==
    [exc_at |-> exc_at, exc_msg |-> exc_msg, content_type |-> content_type,
     status |-> status, html |-> html, elapsed_ms |-> elapsed_ms]

Html(nodes, length) == [nodes |-> nodes, length |-> length]

Anchor(within, href) == [tag |-> "a", within |-> within, value |-> href]

Heading(tag, within, text) == [tag |-> tag, within |-> within, value |-> text]

Script(type, within, string) ==
    [tag |-> "script", within |-> within, value |-> string, type |-> type]

NoHtml == Html(<<>>, 0)

\* the headings and scripts of each page of the site, in document order, ahead
\* of its anchors
SiteElements(url) ==
    CASE url = Home ->
            <<Script("application/ld+json", "head",
                     <<"{", "\"@type\"", ":", "\"Organization\"", "}">>),
              Script("text/javascript", "head", <<"track", "(", ")">>),
              Heading("h1", "header", <<"Example">>),
              Heading("h2", "nav", <<"Menu">>),
              Heading("h1", "body", <<" ", "Welcome", " ">>),
              Heading("h2", "body", <<"News">>),
              Heading("h2", "body", <<"News">>),
              Script("application/ld+json", "body", <<"{", "oops">>),
              Heading("h2", "footer", <<"Imprint">>)>>
      [] url = About ->
            <<Heading("h1", "body", <<"About">>),
              Script("application/ld+json", "body", <<"[", "]">>)>>
      [] OTHER -> <<>>

\* the anchors of each page of the site, in document order
SiteAnchors(url) ==
    CASE url = Home -> <<Anchor("nav", RelTeam), Anchor("body", RelAbout),
                         Anchor("body", Contact), Anchor("body", Other),
                         Anchor("body", Pdf), Anchor("body", AboutFrag),
                         Anchor("body", Home), Anchor("body", MailTo),
                         Anchor("body", Blank)>>
      [] url = About -> <<Anchor("body", Contact), Anchor("body", Blog),
                          Anchor("body", Team)>>
      [] url = Contact -> <<Anchor("body", Home), Anchor("body", About),
                            Anchor("body", Team)>>
      [] url = Blog -> <<Anchor("body", Post), Anchor("body", Team)>>
      [] url = Team -> <<Anchor("body", Blog)>>
      [] OTHER -> <<>>

HtmlPage(url) ==
    Response("none", "", "text/html; charset=utf-8", 200, Html(SiteElements(url) \o SiteAnchors(url), 2048), 120)

\* the ways a fetch can fail that the model explores: a timeout (an exception whose
\* message is empty) and a connection error at session.get, a decoding error at
\* response.text(), and error or non-HTML answers
SiteFailures ==
    {Response("get", "", "", 0, NoHtml, 0),
     Response("get", "Cannot connect to host", "", 0, NoHtml, 0),
     Response("text", "invalid start byte", "text/html", 500, NoHtml, 30),
     Response("none", "", "Text/HTML", 500, NoHtml, 30),
     Response("none", "", "text/html", 404, NoHtml, 30),
     Response("none", "", "application/json", 404, NoHtml, 30),
     Response("none", "", "application/pdf", 200, NoHtml, 30),
     Response("none", "", "", 200, NoHtml, 30)}

\* a page without anchors
LeafPage == Response("none", "", "text/html", 203, Html(<<>>, 512), 40)

\* a home page with two internal links and one external link
ScenarioHome ==
    Response("none", "", "text/html; charset=utf-8", 200,
             Html(<<Anchor("body", RelAbout), Anchor("body", RelContact),
                    Anchor("body", OtherRoot)>>, 1024), 80)

SiteResponses(url) ==
    {HtmlPage(url), LeafPage} \cup (IF url = Home THEN {ScenarioHome} ELSE {})
        \cup SiteFailures

\* ------------------------------------------------------------ __init__

Seeds == {Home, About, NotAUrl, Pdf, AboutFrag}

\* a crawl of the home page and its links with a budget of 10 pages; 10 is also
\* the default of max_concurrent_requests
ScenarioConfigs ==
    [max_pages : {10},
     max_depth : {1},
     max_concurrent_requests : {1, 2, 10},
     respect_robots : {TRUE},
     start_url : {Home}]

Configs ==
    [max_pages : 0..MaxPagesBound,
     max_depth : 0..MaxDepthBound,
     max_concurrent_requests : (-1)..MaxConcBound,
     respect_robots : {TRUE},
     start_url : Seeds]
    \cup ScenarioConfigs

\* a slip in __init__: the attribute takes the value of another argument
self_max_concurrent_requests_swapped == cfg.max_pages

\* the attributes __init__ stores
self_max_pages == cfg.max_pages
self_max_depth == cfg.max_depth
self_max_concurrent_requests == cfg.max_concurrent_requests
self_respect_robots == cfg.respect_robots

\* ------------------------------------------------------------ dictionaries

Put(f, k, v) == [x \in (DOMAIN f) \cup {k} |-> IF x = k THEN v ELSE f[x]]

EmptyDict == [x \in {} |-> <<>>]

Min(a, b) == IF a <= b THEN a ELSE b

\* a slip in line 110: the batch is not removed from the frontier
DropNothing(s, n) == s

\* a slip in line 109: the whole frontier is taken as the batch
TakeAll(s, n) == s

\* a slip in line 110: the frontier is emptied
DropAll(s, n) == <<>>

\* s[:n] and s[n:] for n >= 0
Take(s, n) == SubSeq(s, 1, Min(n, Len(s)))
Drop(s, n) == SubSeq(s, Min(n, Len(s)) + 1, Len(s))

\* a slip in line 143: the test is inverted
FilterNotPrefix(s, base) == SelectSeq(s, LAMBDA link : ~StartsWith(link, base))

\* [link for link in s if link.startswith(base)]
RECURSIVE FilterPrefix(_, _)
FilterPrefix(s, base) ==
    IF s = <<>> THEN <<>>
    ELSE IF StartsWith(Head(s), base) THEN <<Head(s)>> \o FilterPrefix(Tail(s), base)
    ELSE FilterPrefix(Tail(s), base)

\* ------------------------------------------------------------------ crawl

NoResult == [url |-> <<>>, page_data |-> None, new_urls |-> <<>>, error |-> None]

\* a slip in line 118: the admission filter is not asked
AdmitUnfiltered(url, visited, base) == url \notin visited

\* a slip in line 118: with respect_robots set, a path that the site's
\* robots.txt disallows is not fetched
AdmitRespectingRobots(url, visited, base) ==
    /\ url \notin visited
    /\ should_visit_url(url, base)
    /\ self_respect_robots => url # Contact

\* the test of line 118, and the task list built by the loop of lines 114-120:
\* acc = [visited, tasks]
Admit(url, visited, base) == url \notin visited /\ should_visit_url(url, base)

\* a slip in line 119: the URL is not marked
MarkVisitedNot(visited, url) == visited

\* visited_urls.add(url), line 119
MarkVisited(visited, url) == visited \cup {url}

RECURSIVE build_tasks(_, _, _, _)
build_tasks(batch, i, base, acc) ==
    IF i > Len(batch) THEN acc
    ELSE IF Admit(batch[i].url, acc.visited, base)
    THEN build_tasks(batch, i + 1, base,
            [visited |-> MarkVisited(acc.visited, batch[i].url),
             tasks |-> Append(acc.tasks,
                        [url |-> batch[i].url, depth |-> batch[i].depth,
                         state |-> "pending", result |-> NoResult,
                         trace |-> <<>>])])
    ELSE build_tasks(batch, i + 1, base, acc)

\* Python truth value of the error element of a result tuple
Truthy(error) == error # None /\ error[1] # ""

\* a slip in line 149: the default of next() is what is taken
depth_in_batch_default(batch, i, url) == 0

\* next((u["depth"] for u in current_batch if u["url"] == url), 0)
RECURSIVE depth_in_batch(_, _, _)
depth_in_batch(batch, i, url) ==
    IF i > Len(batch) THEN 0
    ELSE IF batch[i].url = url THEN batch[i].depth
    ELSE depth_in_batch(batch, i + 1, url)

\* a slip in line 150: off by one
DepthAllowsOffByOne(current_depth) == current_depth <= self_max_depth

\* the test of line 150
DepthAllows(current_depth) == current_depth < self_max_depth

\* a slip in lines 152-154: the test of line 153 is missing
EnqueueableWithoutQueuedTest(new_url, visited, frontier, base) ==
    /\ new_url \notin visited
    /\ should_visit_url(new_url, base)

\* the test of lines 152-154
Enqueueable(new_url, visited, frontier, base) ==
    /\ new_url \notin visited
    /\ ~\E j \in 1..Len(frontier) : frontier[j].url = new_url
    /\ should_visit_url(new_url, base)

\* the loop of lines 151-155
RECURSIVE enqueue_links(_, _, _, _, _, _)
enqueue_links(new_urls, i, depth, visited, frontier, base) ==
    IF i > Len(new_urls) THEN frontier
    ELSE IF Enqueueable(new_urls[i], visited, frontier, base)
    THEN enqueue_links(new_urls, i + 1, depth, visited,
                       Append(frontier, [url |-> new_urls[i], depth |-> depth + 1]), base)
    ELSE enqueue_links(new_urls, i + 1, depth, visited, frontier, base)

\* a slip in line 139: error_urls is bound to a new dict with the one entry
route_result_rebinding_errors(r, batch, visited, base, st) ==
    IF Truthy(r.error)
    THEN [st EXCEPT !.errors = Put(EmptyDict, r.url, r.error[1])]
    ELSE IF r.page_data # None
    THEN LET pd == r.page_data[1]
             current_depth == depth_in_batch(batch, 1, r.url)
         IN  [pages |-> Put(st.pages, r.url, pd),
              errors |-> st.errors,
              structure |-> Put(st.structure, r.url, FilterPrefix(pd.internal_links, base)),
              frontier |-> IF DepthAllows(current_depth)
                           THEN enqueue_links(r.new_urls, 1, current_depth, visited,
                                              st.frontier, base)
                           ELSE st.frontier]
    ELSE st

\* lines 136-155 for one result tuple; st = [pages, errors, structure, frontier]
route_result(r, batch, visited, base, st) ==
    IF Truthy(r.error)
    THEN [st EXCEPT !.errors = Put(@, r.url, r.error[1])]
    ELSE IF r.page_data # None
    THEN LET pd == r.page_data[1]
             current_depth == depth_in_batch(batch, 1, r.url)
         IN  [pages |-> Put(st.pages, r.url, pd),
              errors |-> st.errors,
              structure |-> Put(st.structure, r.url, FilterPrefix(pd.internal_links, base)),
              frontier |-> IF DepthAllows(current_depth)
                           THEN enqueue_links(r.new_urls, 1, current_depth, visited,
                                              st.frontier, base)
                           ELSE st.frontier]
    ELSE st

\* a slip in lines 126-155: the first failed result ends the routing of the round
RECURSIVE route_results_abort(_, _, _, _, _, _)
route_results_abort(results, i, batch, visited, base, st) ==
    IF i > Len(results) THEN st
    ELSE IF Truthy(results[i].result.error)
    THEN route_result(results[i].result, batch, visited, base, st)
    ELSE route_results_abort(results, i + 1, batch, visited, base,
                             route_result(results[i].result, batch, visited, base, st))

\* the loop of lines 126-155 over batch_results, in task order
RECURSIVE route_results(_, _, _, _, _, _)
route_results(results, i, batch, visited, base, st) ==
    IF i > Len(results) THEN st
    ELSE route_results(results, i + 1, batch, visited, base,
                       route_result(results[i].result, batch, visited, base, st))

\* a slip in line 124: the results are taken as the coroutines complete
as_completed_results(coroutines, order) ==
    [k \in 1..Len(order) |-> coroutines[order[k]]]

\* await asyncio.gather(*tasks), line 124: the results in the order of the
\* awaitables, whatever the order of completion
gather_results(coroutines, order) == coroutines

\* the loop of lines 415-416 over the pages not yet counted
RECURSIVE count_status_codes_over(_, _, _)
count_status_codes_over(pages, urls, status_counts) ==
    IF urls = {} THEN status_counts
    ELSE LET u == CHOOSE x \in urls : TRUE
             code == pages[u].status_code
             seen == IF code \in DOMAIN status_counts THEN status_counts[code] ELSE 0
         IN  count_status_codes_over(pages, urls \ {u}, Put(status_counts, code, seen + 1))

\* a slip in line 413: the dictionary starts with an entry for 200
count_status_codes_seeded(pages) ==
    count_status_codes_over(pages, DOMAIN pages, Put(EmptyDict, 200, 0))

\* _count_status_codes
count_status_codes(pages) == count_status_codes_over(pages, DOMAIN pages, EmptyDict)

\* sum(... for page in pages_data.values()) of lines 400 and 408
RECURSIVE SumLength(_, _)
SumLength(pages, urls) ==
    IF urls = {} THEN 0
    ELSE LET u == CHOOSE x \in urls : TRUE
         IN  pages[u].html.length + SumLength(pages, urls \ {u})

RECURSIVE SumLoadTime(_, _)
SumLoadTime(pages, urls) ==
    IF urls = {} THEN 0
    ELSE LET u == CHOOSE x \in urls : TRUE
         IN  pages[u].load_time_ms + SumLoadTime(pages, urls \ {u})

\* the quotient num / den of two integers, kept exact
Ratio(num, den) == [num |-> num, den |-> den]

\* _calculate_avg_page_size: sum(len(html) / 1024) / len(pages_data), 0 for no pages
calculate_avg_page_size(pages) ==
    IF DOMAIN pages = {} THEN Ratio(0, 1)
    ELSE Ratio(SumLength(pages, DOMAIN pages), 1024 * Cardinality(DOMAIN pages))

\* _calculate_avg_load_time: sum(load_time_ms) / len(pages_data), 0 for no pages
calculate_avg_load_time(pages) ==
    IF DOMAIN pages = {} THEN Ratio(0, 1)
    ELSE Ratio(SumLoadTime(pages, DOMAIN pages), Cardinality(DOMAIN pages))

\* the while condition of line 107
LoopCondition == urls_to_visit # <<>> /\ Cardinality(DOMAIN pages_data) < self_max_pages

\* no pure method is being called
NoProbe == [op |-> "none"]

\* what the site answers to a fetch of url: in a second crawl of the same site,
\* what it answered in the first
SiteAnswers(url) ==
    IF probe.op = "rerun" /\ url \in DOMAIN probe.site
    THEN {probe.site[url]}
    ELSE SiteResponses(url)

\* the locals of crawl() before the call
CrawlInit ==
    /\ pc = "start"
    /\ base_url = <<>>
    /\ visited_urls = {}
    /\ pages_data = EmptyDict
    /\ error_urls = EmptyDict
    /\ urls_to_visit = <<>>
    /\ site_structure = EmptyDict
    /\ semaphore = 0
    /\ current_batch = <<>>
    /\ tasks = <<>>
    /\ result = None
    /\ served = EmptyDict
    /\ dispatched = <<>>
    /\ completed = <<>>
    /\ rounds = 0

Init ==
    /\ cfg \in Configs
    /\ CrawlInit
    /\ probe = NoProbe

\* crawl(), lines 82-105: asyncio.Semaphore(value) raises ValueError for value < 0
CrawlBegin ==
    /\ pc = "start"
    /\ base_url' = BaseUrlOf(cfg.start_url)
    /\ urls_to_visit' = <<[url |-> cfg.start_url, depth |-> 0]>>
    /\ IF self_max_concurrent_requests < 0
       THEN pc' = "raised" /\ semaphore' = semaphore
       ELSE pc' = "loop" /\ semaphore' = self_max_concurrent_requests
    /\ UNCHANGED <<cfg, visited_urls, pages_data, error_urls, site_structure,
                   current_batch, tasks, result, served, dispatched,
                   completed, rounds, probe>>

\* crawl(), lines 107-123: pop the batch, mark and create the tasks of the round
RoundDispatch ==
    /\ pc = "loop"
    /\ LoopCondition
    /\ LET batch == Take(urls_to_visit, self_max_concurrent_requests)
           built == build_tasks(batch, 1, base_url, [visited |-> visited_urls, tasks |-> <<>>])
       IN  /\ current_batch' = batch
           /\ urls_to_visit' = Drop(urls_to_visit, self_max_concurrent_requests)
           /\ visited_urls' = built.visited
           /\ tasks' = built.tasks
           /\ dispatched' = dispatched \o
                  [i \in 1..Len(built.tasks) |->
                      [url |-> built.tasks[i].url, depth |-> built.tasks[i].depth]]
           /\ pc' = IF built.tasks = <<>> THEN "loop" ELSE "gather"
    /\ rounds' = Min(rounds + 1, MaxRounds)
    /\ completed' = <<>>
    /\ UNCHANGED <<cfg, base_url, pages_data, error_urls, site_structure, semaphore,
                   result, served,
                   probe>>

\* _process_url, lines 200-205: the coroutine enters the semaphore and sends the request
TaskStart(i) ==
    /\ pc = "gather"
    /\ tasks[i].state = "pending"
    /\ semaphore > 0
    /\ semaphore' = semaphore - 1
    /\ tasks' = [tasks EXCEPT ![i].state = "inflight"]
    /\ UNCHANGED <<cfg, pc, base_url, visited_urls, pages_data, error_urls, urls_to_visit,
                   site_structure, current_batch, result, served, dispatched,
                   completed, rounds, probe>>

\* a slip in lines 258-261: the coroutine records its failure in error_urls itself
TaskFinishWritesErrors(i) ==
    /\ pc = "gather"
    /\ tasks[i].state = "inflight"
    /\ \E resp \in SiteAnswers(tasks[i].url) :
          LET r == process_url(tasks[i].url, resp, base_url)
          IN  /\ tasks' = [tasks EXCEPT ![i].state = "done", ![i].result = r,
                                        ![i].trace = fetch_events(resp)]
              /\ served' = Put(served, tasks[i].url, resp)
              /\ error_urls' = IF Truthy(r.error)
                               THEN Put(error_urls, tasks[i].url, r.error[1])
                               ELSE error_urls
    /\ semaphore' = semaphore + 1
    /\ completed' = Append(completed, i)
    /\ UNCHANGED <<cfg, pc, base_url, visited_urls, pages_data, urls_to_visit,
                   site_structure, current_batch, result, dispatched,
                   rounds, probe>>

\* a slip in line 200: the coroutine returns without releasing the semaphore
TaskFinishKeepsPermit(i) ==
    /\ pc = "gather"
    /\ tasks[i].state = "inflight"
    /\ \E resp \in SiteAnswers(tasks[i].url) :
          /\ tasks' = [tasks EXCEPT ![i].state = "done",
                                    ![i].result = process_url(tasks[i].url, resp, base_url),
                                    ![i].trace = fetch_events(resp)]
          /\ served' = Put(served, tasks[i].url, resp)
    /\ completed' = Append(completed, i)
    /\ UNCHANGED <<cfg, pc, base_url, visited_urls, pages_data, error_urls, urls_to_visit,
                   site_structure, semaphore, current_batch, result, dispatched,
                   rounds, probe>>

\* _process_url, lines 205-261: the response (or exception) arrives, the coroutine
\* builds its result tuple and leaves the semaphore
TaskFinish(i) ==
    /\ pc = "gather"
    /\ tasks[i].state = "inflight"
    /\ \E resp \in SiteAnswers(tasks[i].url) :
          /\ tasks' = [tasks EXCEPT ![i].state = "done",
                                    ![i].result = process_url(tasks[i].url, resp, base_url),
                                    ![i].trace = fetch_events(resp)]
          /\ served' = Put(served, tasks[i].url, resp)
    /\ semaphore' = semaphore + 1
    /\ completed' = Append(completed, i)
    /\ UNCHANGED <<cfg, pc, base_url, visited_urls, pages_data, error_urls, urls_to_visit,
                   site_structure, current_batch, result, dispatched,
                   rounds, probe>>

\* a slip in line 124: the wait ends with the first coroutine that completes
GatherFirstCompleted(coroutines) ==
    \E i \in 1..Len(coroutines) : coroutines[i].state = "done"

\* await asyncio.gather(*tasks), line 124, returns when every coroutine has returned
GatherReturned(coroutines) ==
    \A i \in 1..Len(coroutines) : coroutines[i].state = "done"

\* crawl(), lines 124-155: gather has returned; route every result of the round
RoundCollect ==
    /\ pc = "gather"
    /\ GatherReturned(tasks)
    /\ LET st == route_results(gather_results(tasks, completed), 1, current_batch,
                               visited_urls, base_url,
                     [pages |-> pages_data, errors |-> error_urls,
                      structure |-> site_structure, frontier |-> urls_to_visit])
       IN  /\ pages_data' = st.pages
           /\ error_urls' = st.errors
           /\ site_structure' = st.structure
           /\ urls_to_visit' = st.frontier
    /\ tasks' = <<>>
    /\ pc' = "loop"
    /\ UNCHANGED <<cfg, base_url, visited_urls, semaphore, current_batch, result,
                   served, dispatched,
                   completed, rounds, probe>>

\* crawl(), lines 157-176: the loop has ended; statistics and the CrawlResult
CrawlReturn ==
    /\ pc = "loop"
    /\ ~LoopCondition
    /\ result' = Some([base_url |-> base_url,
                       pages |-> pages_data,
                       errors |-> error_urls,
                       site_structure |-> site_structure,
                       crawl_stats |->
                          [total_pages_crawled |-> Cardinality(DOMAIN pages_data),
                           total_errors |-> Cardinality(DOMAIN error_urls),
                           average_page_size_kb |-> calculate_avg_page_size(pages_data),
                           average_load_time_ms |-> calculate_avg_load_time(pages_data),
                           pages_by_status_code |-> count_status_codes(pages_data)]])
    /\ pc' = "returned"
    /\ UNCHANGED <<cfg, base_url, visited_urls, pages_data, error_urls, urls_to_visit,
                   site_structure, semaphore, current_batch, tasks, served, dispatched,
                   completed, rounds, probe>>

Next ==
    \/ CrawlBegin
    \/ RoundDispatch
    \/ \E i \in 1..Len(tasks) : TaskStart(i)
    \/ \E i \in 1..Len(tasks) : TaskFinish(i)
    \/ RoundCollect
    \/ CrawlReturn

Spec == Init /\ [][Next]_vars

\* ------------------------------------------- pure methods, called on their own

crawl_vars == <<cfg, pc, base_url, visited_urls, pages_data, error_urls, urls_to_visit,
                site_structure, semaphore, current_batch, tasks, result, served,
                dispatched, completed, rounds>>

\* the URLs and origins the filter is called with
ProbeUrls ==
    {scheme \o <<"://">> \o host \o path :
        scheme \in {<<"https">>, <<"http">>},
        host \in {<<"example.com">>, <<"example.com", ".evil.org">>, <<"other.com">>},
        path \in {<<>>, <<"/">>, <<"/", "about">>, <<"/", "x">>,
                  <<"/", "doc", ".pdf">>, <<"/", "doc", ".PDF">>,
                  <<"/", "doc", ".pdf", "?", "v=1">>,
                  <<"/", "about", "#", "staff">>, <<"/", "style", ".css">>}}
    \cup {NotAUrl}

ProbeOrigins ==
    {Origin, <<"http", "://", "example.com">>, <<"https", "://", "other.com">>, <<"://">>}

\* the documents _extract_content is called with
ProbeHtmls == {HtmlPage(url).html : url \in {Home, About, Contact, Blog}} \cup {LeafPage.html}

ProbeInit ==
    /\ cfg = [max_pages |-> 1, max_depth |-> 0, max_concurrent_requests |-> 1,
              respect_robots |-> TRUE, start_url |-> Home]
    /\ CrawlInit
    /\ \/ \E url \in ProbeUrls, origin \in ProbeOrigins :
              probe = [op |-> "input", url |-> url, origin |-> origin]
       \/ \E html \in ProbeHtmls :
              probe = [op |-> "soup", soup |-> parse(html)]

\* self._should_visit_url(url, base_url)
ApplyShouldVisit ==
    /\ probe.op = "input"
    /\ probe' = [op |-> "should_visit_url", url |-> probe.url, origin |-> probe.origin,
                 out |-> should_visit_url(probe.url, probe.origin)]
    /\ UNCHANGED crawl_vars

\* self._extract_content(soup): soup is the caller's object, out the returned text
ApplyExtractContent ==
    /\ probe.op = "soup"
    /\ probe' = [op |-> "extract_content", before |-> probe.soup,
                 soup |-> extract_content(probe.soup).soup,
                 out |-> extract_content(probe.soup).text]
    /\ UNCHANGED crawl_vars

ProbeNext == ApplyShouldVisit \/ ApplyExtractContent

ProbeSpec == ProbeInit /\ [][ProbeNext]_vars

\* ------------------------- two crawls of one site that differ in respect_robots

\* the configurations of the first crawl
RobotsConfigs == {c \in Configs : c.start_url = Home /\ c.max_concurrent_requests >= 1}

RobotsInit ==
    /\ cfg \in RobotsConfigs
    /\ CrawlInit
    /\ probe = NoProbe

\* the first crawl has returned; WebsiteCrawler is constructed again with the
\* other value of respect_robots and the same other arguments, and crawl() is
\* called with the same start_url on the same site
Rerun ==
    /\ pc = "returned"
    /\ probe = NoProbe
    /\ probe' = [op |-> "rerun", site |-> served, fetched |-> dispatched,
                 iterations |-> rounds, result |-> result[1]]
    /\ cfg' = [cfg EXCEPT !.respect_robots = ~@]
    /\ pc' = "start"
    /\ base_url' = <<>>
    /\ visited_urls' = {}
    /\ pages_data' = EmptyDict
    /\ error_urls' = EmptyDict
    /\ urls_to_visit' = <<>>
    /\ site_structure' = EmptyDict
    /\ semaphore' = 0
    /\ current_batch' = <<>>
    /\ tasks' = <<>>
    /\ result' = None
    /\ served' = EmptyDict
    /\ dispatched' = <<>>
    /\ completed' = <<>>
    /\ rounds' = 0

RobotsNext == Next \/ Rerun

RobotsSpec == RobotsInit /\ [][RobotsNext]_vars

\* every coroutine that can run does run, and every request is answered
\* (success, error or timeout)
FairSpec == Spec /\ WF_vars(Next)

(***************************************************************************)
(* Vocabulary of the properties.                                           *)
(***************************************************************************)
PositiveLimits == cfg.max_pages >= 1 /\ cfg.max_concurrent_requests >= 1

DispatchedUrls == {dispatched[i].url : i \in 1..Len(dispatched)}

FrontierUrls == {urls_to_visit[i].url : i \in 1..Len(urls_to_visit)}

InFlight == {i \in 1..Len(tasks) : tasks[i].state = "inflight"}

\* the depth with which url was handed to its Fetch Worker
DispatchDepth(url) ==
    (CHOOSE e \in {dispatched[i] : i \in 1..Len(dispatched)} : e.url = url).depth

\* url, with depth d >= 1, is a link of a recorded page that was fetched at depth d - 1
HasParent(url, d) ==
    \E p \in DOMAIN pages_data :
        /\ InSeq(url, pages_data[p].internal_links)
        /\ p \in DispatchedUrls
        /\ DispatchDepth(p) = d - 1

RoundBoundary == pc \in {"loop", "returned"}

\* C1: Page budget. For positive limits the number of entries of pages never
\* exceeds max_pages, in every state of the run and in the returned CrawlResult.
C1_PageBudget ==
    PositiveLimits =>
        /\ Cardinality(DOMAIN pages_data) <= cfg.max_pages
        /\ result # None => Cardinality(DOMAIN result[1].pages) <= cfg.max_pages

\* C2: No duplicate fetches. No URL is handed to _process_url twice, the URLs of
\* the tasks of a round are pairwise distinct and already in visited_urls, and
\* no URL is a key of both pages and errors.
C2_NoDuplicateFetches ==
    /\ \A i, j \in 1..Len(dispatched) :
           i # j => dispatched[i].url # dispatched[j].url
    /\ \A i, j \in 1..Len(tasks) : i # j => tasks[i].url # tasks[j].url
    /\ \A i \in 1..Len(tasks) : tasks[i].url \in visited_urls
    /\ (DOMAIN pages_data) \cap (DOMAIN error_urls) = {}

\* a page (About) that links to an already fetched URL (Contact) has been
\* recorded, and the next round has two requests in flight
C2_Witness ==
    /\ About \in DOMAIN pages_data
    /\ InSeq(Contact, pages_data[About].internal_links)
    /\ Contact \in DOMAIN error_urls
    /\ Len(tasks) = 2
    /\ Cardinality(InFlight) = 2

\* C3: Concurrency cap. The number of workers that hold the semaphore with a
\* request in flight never exceeds the max_concurrent_requests the crawler was
\* constructed with.
C3_ConcurrencyCap ==
    cfg.max_concurrent_requests >= 1 =>
        Cardinality(InFlight) <= cfg.max_concurrent_requests

\* the cap is reached: as many requests in flight as permits, none left
C3_Witness ==
    /\ cfg.max_concurrent_requests = 2
    /\ Cardinality(InFlight) = 2
    /\ semaphore = 0

\* C4: Depth bound. Every URL handed to a worker, and every frontier entry, has
\* a depth in 0..max_depth; depth 0 is the seed's, and an entry of depth d >= 1
\* is a link of a recorded page fetched at depth d - 1 (so no entry stems from a
\* page at depth max_depth, and with max_depth = 0 only the seed is fetched).
C4_DepthBound ==
    /\ \A i \in 1..Len(dispatched) :
           /\ dispatched[i].depth \in 0..cfg.max_depth
           /\ dispatched[i].depth = 0 => dispatched[i].url = cfg.start_url
           /\ dispatched[i].depth >= 1 => HasParent(dispatched[i].url, dispatched[i].depth)
    /\ \A i \in 1..Len(urls_to_visit) :
           /\ urls_to_visit[i].depth \in 0..cfg.max_depth
           /\ urls_to_visit[i].depth = 0 => urls_to_visit[i].url = cfg.start_url
           /\ urls_to_visit[i].depth >= 1 =>
                  HasParent(urls_to_visit[i].url, urls_to_visit[i].depth)
    /\ cfg.max_depth = 0 => DispatchedUrls \subseteq {cfg.start_url}

\* a page fetched at depth max_depth has been recorded and its link was not enqueued
C4_Witness ==
    /\ pc = "loop"
    /\ cfg.max_depth = 2
    /\ Blog \in DOMAIN pages_data
    /\ DispatchDepth(Blog) = 2
    /\ InSeq(Post, pages_data[Blog].internal_links)
    /\ Post \notin FrontierUrls
    /\ Post \notin visited_urls

\* C5: Failure recording. At every round boundary each URL that was handed to a
\* worker is a key of exactly one of pages and errors, and the returned
\* total_errors counts every fetch that did not yield a page.
C5_FailureRecording ==
    RoundBoundary =>
        /\ visited_urls = (DOMAIN pages_data) \cup (DOMAIN error_urls)
        /\ (DOMAIN pages_data) \cap (DOMAIN error_urls) = {}
        /\ result # None =>
               result[1].crawl_stats.total_errors =
                   Cardinality(visited_urls \ DOMAIN pages_data)

\* the Content-Type values of the modelled sites that contain text/html
IsHtmlType(ct) == ct \in {"text/html", "text/html; charset=utf-8", "Text/HTML"}

\* the site answered with HTML and the given status, and the body was read
AnsweredHtml(r, status) == r.exc_at = "none" /\ IsHtmlType(r.content_type) /\ r.status = status

\* C6: Error isolation. crawl never raises once a fetch was issued; at every
\* round boundary each URL answered with HTML 200 is a page and each URL
\* answered with HTML 500 is in errors as "HTTP status 500", whatever happened
\* to the other URLs; and when exactly home, about and contact were fetched and
\* one of them answered HTML 500 and the other two HTML 200, the CrawlResult
\* has the other two as pages, exactly that URL in errors and total_errors = 1.
C6_ErrorIsolation ==
    /\ pc = "raised" => dispatched = <<>>
    /\ RoundBoundary =>
          \A u \in DOMAIN served :
              /\ AnsweredHtml(served[u], 200) => u \in DOMAIN pages_data
              /\ AnsweredHtml(served[u], 500) =>
                     /\ u \notin DOMAIN pages_data
                     /\ u \in DOMAIN error_urls
                     /\ error_urls[u] = "HTTP status 500"
    /\ (pc = "returned" /\ DOMAIN served = {Home, About, Contact}) =>
          \A bad \in DOMAIN served :
              (/\ AnsweredHtml(served[bad], 500)
               /\ \A u \in DOMAIN served \ {bad} : AnsweredHtml(served[u], 200))
              => /\ DOMAIN result[1].pages = DOMAIN served \ {bad}
                 /\ DOMAIN result[1].errors = {bad}
                 /\ result[1].errors[bad] = "HTTP status 500"
                 /\ result[1].crawl_stats.total_errors = 1

\* the scenario: about and contact were fetched in one round, about answered 500
C6_Witness ==
    /\ pc = "returned"
    /\ DOMAIN served = {Home, About, Contact}
    /\ AnsweredHtml(served[Home], 200)
    /\ AnsweredHtml(served[About], 500)
    /\ AnsweredHtml(served[Contact], 200)
    /\ Len(current_batch) = 2

\* C7 as stated: every response with status >= 400, whatever its Content-Type,
\* puts the URL in errors with a description that carries the status code, and
\* records no page.
C7_HttpStatusAnyContentType ==
    RoundBoundary =>
        \A u \in DOMAIN served :
            (served[u].exc_at = "none" /\ served[u].status >= 400) =>
                /\ u \notin DOMAIN pages_data
                /\ u \in DOMAIN error_urls
                /\ error_urls[u] = "HTTP status " \o ToString(served[u].status)

\* C7, amended: no response with status >= 400 yields a page; when its
\* Content-Type contains text/html and the body was read, the URL is in errors
\* as "HTTP status <code>"; when its Content-Type does not contain text/html,
\* the URL is in errors as "Not HTML content: <type>", without the code.
C7_HttpStatusClassification ==
    RoundBoundary =>
        \A u \in DOMAIN served :
            (served[u].exc_at # "get" /\ served[u].status >= 400) =>
                /\ u \notin DOMAIN pages_data
                /\ (served[u].exc_at = "none" /\ IsHtmlType(served[u].content_type)) =>
                       /\ u \in DOMAIN error_urls
                       /\ error_urls[u] = "HTTP status " \o ToString(served[u].status)
                /\ ~IsHtmlType(served[u].content_type) =>
                       /\ u \in DOMAIN error_urls
                       /\ error_urls[u] = "Not HTML content: " \o served[u].content_type

\* both classifications have happened in one run
C7_Witness ==
    /\ RoundBoundary
    /\ \E u \in DOMAIN served :
           /\ AnsweredHtml(served[u], 404)
           /\ error_urls[u] = "HTTP status 404"
    /\ \E u \in DOMAIN served :
           /\ served[u].status = 404
           /\ served[u].content_type = "application/json"
           /\ error_urls[u] = "Not HTML content: application/json"

\* the seed has no scheme or no host, or a limit is not positive
InvalidConfig ==
    \/ UrlScheme(cfg.start_url) = <<>>
    \/ UrlNetloc(cfg.start_url) = <<>>
    \/ cfg.max_pages < 1
    \/ cfg.max_concurrent_requests < 1

\* C8: Configuration errors. With an invalid seed or a non-positive limit, crawl
\* issues no fetch and does not return a CrawlResult.
C8_ConfigErrors ==
    InvalidConfig =>
        /\ dispatched = <<>>
        /\ pc # "returned"
        /\ result = None

\* C9: Termination. With positive limits, when every coroutine that can run
\* does run and every request is answered, crawl returns; and when it has
\* returned, the frontier is empty or pages holds at least max_pages entries.
C9_Termination ==
    /\ PositiveLimits => <>(pc = "returned")
    /\ [](pc = "returned" =>
             \/ urls_to_visit = <<>>
             \/ Cardinality(DOMAIN pages_data) >= cfg.max_pages)

\* crawl has returned on the budget, with URLs left in the frontier
C9_Witness ==
    /\ pc = "returned"
    /\ PositiveLimits
    /\ urls_to_visit # <<>>
    /\ Cardinality(DOMAIN pages_data) >= cfg.max_pages
    /\ Len(dispatched) >= 2

\* C10: Admission gates every fetch. Every URL handed to a worker, answered by
\* the site, or a key of pages or errors passes _should_visit_url; the .pdf
\* link, the external link, the seed with a fragment and the seed without a
\* scheme are never among them; and errors only holds URLs a worker was given.
C10_AdmissionGate ==
    LET touched == DispatchedUrls \cup {tasks[i].url : i \in 1..Len(tasks)}
                     \cup (DOMAIN served) \cup (DOMAIN pages_data) \cup (DOMAIN error_urls)
    IN  /\ \A u \in touched : should_visit_url(u, base_url)
        /\ touched \cap {Pdf, Other, AboutFrag, NotAUrl} = {}
        /\ DOMAIN error_urls \subseteq DispatchedUrls

\* the .pdf link was discovered on the home page and never fetched, while another
\* URL went through the worker's content-type skip
C10_Witness ==
    /\ pc = "returned"
    /\ Home \in DOMAIN pages_data
    /\ InSeq(Pdf, pages_data[Home].internal_links)
    /\ Pdf \notin visited_urls
    /\ \E u \in DOMAIN error_urls : error_urls[u] = "Not HTML content: application/pdf"

\* C11: Admission filter basics. A call of _should_visit_url leaves the crawl
\* state alone and returns false for every URL that does not start with the
\* origin string (https://other.com/x with origin https://example.com among
\* them) and for every URL that contains '#'.
C11_AdmissionBasics ==
    probe.op = "should_visit_url" =>
        /\ ~StartsWith(probe.url, probe.origin) => probe.out = FALSE
        /\ Contains(probe.url, "#") => probe.out = FALSE
        /\ (probe.url = <<"https", "://", "other.com", "/", "x">> /\ probe.origin = Origin)
               => probe.out = FALSE
        /\ pc = "start" /\ visited_urls = {} /\ urls_to_visit = <<>>

\* the filter was called on a same-origin URL with a fragment and rejected it
C11_Witness ==
    /\ probe.op = "should_visit_url"
    /\ probe.url = <<"https", "://", "example.com", "/", "about", "#", "staff">>
    /\ probe.origin = Origin
    /\ probe.out = FALSE

\* an href that _extract_links is meant to keep, and the URL it stands for
EligibleHref(href) ==
    /\ Strip(href) # <<>>
    /\ ~StartsWithAny(Strip(href), {"javascript:", "mailto:", "tel:"})

LinkTarget(page_url, href) ==
    StripFragment(IF IsAbsoluteHttp(Strip(href)) THEN Strip(href)
                  ELSE UrlJoin(page_url, Strip(href)))

NoDuplicates(seq) == \A i, j \in 1..Len(seq) : i # j => seq[i] # seq[j]

\* C12: Link coverage and partition. For every recorded page the two link lists
\* are disjoint and free of duplicates, every anchor of the page's HTML with an
\* eligible href, in whatever element it sits, has its target in exactly one of
\* them, and the lists are what first-seen order over all anchors gives.
C12_LinkCoverage ==
    \A u \in DOMAIN pages_data :
        LET pd == pages_data[u]
            doc == parse(pd.html)
            all == extract_links(anchor_hrefs(doc), base_url, u)
        IN  /\ \A i \in 1..Len(pd.internal_links) : ~InSeq(pd.internal_links[i], pd.external_links)
            /\ NoDuplicates(pd.internal_links)
            /\ NoDuplicates(pd.external_links)
            /\ \A k \in 1..Len(doc) :
                   (doc[k].tag = "a" /\ EligibleHref(doc[k].value)) =>
                       InSeq(LinkTarget(u, doc[k].value), pd.internal_links)
                           # InSeq(LinkTarget(u, doc[k].value), pd.external_links)
            /\ pd.internal_links = all.internal
            /\ pd.external_links = all.external

\* C13: End-to-end scenario. Seed https://example.com/, max_depth 1, max_pages
\* 10, a home page linking /about, /contact and https://other.com, every other
\* fetch answered with HTML 200: the result has exactly the pages home, about
\* and contact, no errors, the external URL was never fetched, and
\* site_structure[home] is [about, contact].
C13_EndToEnd ==
    (/\ pc = "returned"
     /\ cfg.start_url = Home /\ cfg.max_depth = 1 /\ cfg.max_pages = 10
     /\ Home \in DOMAIN served
     /\ served[Home] = ScenarioHome
     /\ \A u \in DOMAIN served \ {Home} : AnsweredHtml(served[u], 200))
    => /\ DOMAIN result[1].pages = {Home, About, Contact}
       /\ DOMAIN result[1].errors = {}
       /\ result[1].crawl_stats.total_pages_crawled = 3
       /\ OtherRoot \notin DispatchedUrls \cup DOMAIN served
       /\ result[1].site_structure[Home] = <<About, Contact>>

\* the scenario has run to its end with the default concurrency
C13_Witness ==
    /\ pc = "returned"
    /\ cfg.start_url = Home /\ cfg.max_depth = 1 /\ cfg.max_pages = 10
    /\ cfg.max_concurrent_requests = 10
    /\ Home \in DOMAIN served
    /\ served[Home] = ScenarioHome
    /\ \A u \in DOMAIN served \ {Home} : AnsweredHtml(served[u], 200)
    /\ Cardinality(DOMAIN served) = 3

\* the crawl of cfg replayed on the site given by served, every round completing
\* in task order: one iteration of the while loop from the locals st
ReplayRound(st) ==
    LET batch == Take(st.frontier, self_max_concurrent_requests)
        built == build_tasks(batch, 1, BaseUrlOf(cfg.start_url),
                             [visited |-> st.visited, tasks |-> <<>>])
        known == \A i \in 1..Len(built.tasks) : built.tasks[i].url \in DOMAIN served
        done  == [i \in 1..Len(built.tasks) |->
                    [built.tasks[i] EXCEPT
                        !.state = "done",
                        !.result = process_url(built.tasks[i].url,
                                               served[built.tasks[i].url],
                                               BaseUrlOf(cfg.start_url))]]
        routed == route_results(done, 1, batch, built.visited, BaseUrlOf(cfg.start_url),
                      [pages |-> st.pages, errors |-> st.errors,
                       structure |-> st.structure,
                       frontier |-> Drop(st.frontier, self_max_concurrent_requests)])
    IN  IF ~known THEN [st EXCEPT !.diverged = TRUE]
        ELSE [visited |-> built.visited,
              pages |-> routed.pages,
              errors |-> routed.errors,
              structure |-> routed.structure,
              frontier |-> routed.frontier,
              fetched |-> st.fetched \o
                  [i \in 1..Len(built.tasks) |->
                      [url |-> built.tasks[i].url, depth |-> built.tasks[i].depth]],
              diverged |-> st.diverged]

\* the locals after n iterations of the replayed loop
RECURSIVE Replay(_)
Replay(n) ==
    IF n = 0
    THEN [visited |-> {}, pages |-> EmptyDict, errors |-> EmptyDict,
          structure |-> EmptyDict,
          frontier |-> <<[url |-> cfg.start_url, depth |-> 0]>>,
          fetched |-> <<>>, diverged |-> FALSE]
    ELSE ReplayRound(Replay(n - 1))

\* the locals of the run as they stand
CrawlLocals ==
    [visited |-> visited_urls, pages |-> pages_data, errors |-> error_urls,
     structure |-> site_structure, frontier |-> urls_to_visit,
     fetched |-> dispatched, diverged |-> FALSE]

\* C14: Determinism under completion order. For a fixed site and configuration,
\* after every round the fetched URLs with their depths, the frontier in order,
\* the visited set, pages, errors and site_structure are those of the run whose
\* workers complete in task order on the same site, whatever the order in which
\* the workers of each round completed.
C14_CompletionOrderDeterminism ==
    (RoundBoundary /\ rounds < MaxRounds) => CrawlLocals = Replay(rounds)

\* a round of two workers has completed in the reverse of its task order, both
\* pages had links to enqueue, and the round has been routed
C14_Witness ==
    /\ pc = "loop"
    /\ rounds = 2
    /\ completed = <<2, 1>>
    /\ Len(dispatched) = 3
    /\ Len(urls_to_visit) >= 2
    /\ \E u \in DOMAIN pages_data, v \in DOMAIN pages_data :
          /\ u # v
          /\ pages_data[u].internal_links # <<>>
          /\ pages_data[v].internal_links # <<>>
          /\ u = dispatched[2].url /\ v = dispatched[3].url

\* the sum of the counts of a histogram
RECURSIVE SumCounts(_, _)
SumCounts(counts, keys) ==
    IF keys = {} THEN 0
    ELSE LET k == CHOOSE x \in keys : TRUE
         IN  counts[k] + SumCounts(counts, keys \ {k})

\* C16: Statistics consistency. In every returned CrawlResult total_pages_crawled
\* is the number of pages, total_errors the number of errors, pages_by_status_code
\* maps each status code to the number of pages with that code (its counts sum
\* to the number of pages and none is 0), and both averages are 0 when there is
\* no page.
C16_StatisticsConsistency ==
    pc = "returned" =>
        LET r == result[1]
            stats == r.crawl_stats
            hist == stats.pages_by_status_code
        IN  /\ stats.total_pages_crawled = Cardinality(DOMAIN r.pages)
            /\ stats.total_errors = Cardinality(DOMAIN r.errors)
            /\ \A u \in DOMAIN r.pages : r.pages[u].status_code \in DOMAIN hist
            /\ \A code \in DOMAIN hist :
                  /\ hist[code] = Cardinality({u \in DOMAIN r.pages :
                                                 r.pages[u].status_code = code})
                  /\ hist[code] > 0
            /\ SumCounts(hist, DOMAIN hist) = Cardinality(DOMAIN r.pages)
            /\ DOMAIN r.pages = {} =>
                  /\ stats.average_page_size_kb.num = 0
                  /\ stats.average_load_time_ms.num = 0

\* a crawl has returned pages of two status codes, one of them twice, and an error
C16_Witness ==
    /\ pc = "returned"
    /\ Cardinality(DOMAIN result[1].pages) = 3
    /\ Cardinality(DOMAIN result[1].crawl_stats.pages_by_status_code) = 2
    /\ DOMAIN result[1].errors # {}

TaskUrls == {tasks[i].url : i \in 1..Len(tasks)}

\* the result of the fetch of url has been routed: a truthy error is in errors; a
\* page is in pages and, when its depth allows, each of its admitted links is
\* visited or queued
Routed(url) ==
    LET r == process_url(url, served[url], base_url)
    IN  IF Truthy(r.error) THEN url \in DOMAIN error_urls
        ELSE IF r.page_data # None
        THEN /\ url \in DOMAIN pages_data
             /\ DispatchDepth(url) < cfg.max_depth =>
                   \A k \in 1..Len(r.new_urls) :
                       should_visit_url(r.new_urls[k], base_url) =>
                           r.new_urls[k] \in visited_urls \cup FrontierUrls
        ELSE TRUE

\* whenever workers of a round exist, every worker of the earlier rounds has
\* completed and its result has been routed
EarlierRoundsSettled ==
    \A u \in DispatchedUrls \ TaskUrls : u \in DOMAIN served /\ Routed(u)

\* the step that creates the workers of a round takes them, in order, from the
\* head of the frontier as it stands, and removes that head
DispatchFromHead ==
    (pc = "loop" /\ pc' = "gather") =>
        LET head == Take(urls_to_visit, cfg.max_concurrent_requests)
        IN  /\ tasks = <<>>
            /\ semaphore = cfg.max_concurrent_requests
            /\ current_batch' = head
            /\ head \o urls_to_visit' = urls_to_visit
            /\ \A i \in 1..Len(tasks') :
                  \E k \in 1..Len(head) :
                      head[k].url = tasks'[i].url /\ head[k].depth = tasks'[i].depth
            /\ \A i \in 1..Len(tasks') : tasks'[i].state = "pending"

\* C17: Round barrier. No worker of a round starts before every worker of the
\* round before it has completed and that round's results have been routed and
\* its new links enqueued; each round dispatches only entries popped from the
\* head of the frontier as it stood at the start of the round.
C17_RoundBarrier ==
    /\ [](EarlierRoundsSettled)
    /\ [][DispatchFromHead]_vars

\* a worker of the third round is in flight, after two rounds that enqueued links
C17_Witness ==
    /\ pc = "gather"
    /\ rounds = 3
    /\ InFlight # {}
    /\ Len(dispatched) > Len(tasks) + 1
    /\ urls_to_visit # <<>>
    /\ Cardinality(DOMAIN pages_data) >= 2

\* the collections the scheduler owns
SharedState == <<urls_to_visit, visited_urls, pages_data, error_urls, site_structure>>

\* a task exists whose coroutine has not returned
WorkerOutstanding == \E i \in 1..Len(tasks) : tasks[i].state # "done"

\* a step of a worker: a coroutine of the round starts or returns
WorkerStep ==
    /\ Len(tasks') = Len(tasks)
    /\ \E i \in 1..Len(tasks) : tasks'[i].state # tasks[i].state

\* C18: Single writer. While a Fetch Worker is outstanding the frontier, the
\* visited set, pages, errors and site_structure do not change; a worker's step
\* changes only its own task (its return value); every change to the shared
\* collections is a step of crawl() itself: the seeding, the dispatch of a round
\* with no worker alive, or the routing after every worker has returned.
C18_SingleWriter ==
    [][/\ WorkerOutstanding => UNCHANGED SharedState
       /\ WorkerStep =>
             /\ UNCHANGED SharedState
             /\ \E i \in 1..Len(tasks) :
                   /\ tasks'[i].state # tasks[i].state
                   /\ \A j \in 1..Len(tasks) : j # i => tasks'[j] = tasks[j]
                   /\ tasks'[i].state = "done" =>
                         \E resp \in SiteResponses(tasks[i].url) :
                             tasks'[i].result = process_url(tasks[i].url, resp, base_url)
       /\ SharedState' # SharedState =>
             IF pc = "start" THEN pc' \in {"loop", "raised"}
             ELSE IF pc = "loop" THEN tasks = <<>> /\ semaphore = cfg.max_concurrent_requests
             ELSE pc = "gather" /\ GatherReturned(tasks) /\ pc' = "loop" /\ tasks' = <<>>
      ]_vars

\* a worker has returned a failure while another worker of the round is in flight,
\* and the failure is not yet in errors
C18_Witness ==
    /\ pc = "gather"
    /\ \E i \in 1..Len(tasks), j \in 1..Len(tasks) :
          /\ tasks[i].state = "done"
          /\ Truthy(tasks[i].result.error)
          /\ tasks[i].url \notin DOMAIN error_urls
          /\ tasks[j].state = "inflight"

\* the frontier has no two entries with one URL, no visited URL and, apart from
\* the seed, only admitted URLs with a depth in 1..max_depth
FrontierWellFormed ==
    /\ \A j, k \in 1..Len(urls_to_visit) :
          urls_to_visit[j].url = urls_to_visit[k].url => j = k
    /\ \A k \in 1..Len(urls_to_visit) :
          LET e == urls_to_visit[k]
          IN  /\ e.url \notin visited_urls
              /\ e # [url |-> cfg.start_url, depth |-> 0] =>
                    /\ should_visit_url(e.url, base_url)
                    /\ e.depth \in 1..cfg.max_depth

\* the entries a step appends to the frontier
Appended == SubSeq(urls_to_visit', Len(urls_to_visit) + 1, Len(urls_to_visit'))

\* the routing step appends only links of pages it records, under the tests of
\* lines 150-154, with the depth of the page plus one; no other step of the loop
\* appends
AppendRule ==
    IF pc = "gather" /\ pc' = "loop"
    THEN /\ urls_to_visit' = urls_to_visit \o Appended
         /\ \A k \in 1..Len(Appended) :
               LET e == Appended[k]
               IN  /\ e.url \notin visited_urls
                   /\ e.url \notin FrontierUrls
                   /\ \A j \in 1..Len(Appended) : Appended[j].url = e.url => j = k
                   /\ should_visit_url(e.url, base_url)
                   /\ \E i \in 1..Len(tasks) :
                         /\ tasks[i].url \in DOMAIN pages_data'
                         /\ InSeq(e.url, pages_data'[tasks[i].url].internal_links)
                         /\ tasks[i].depth < cfg.max_depth
                         /\ e.depth = tasks[i].depth + 1
    ELSE pc # "start" =>
            \E n \in 0..Len(urls_to_visit) :
                urls_to_visit' = SubSeq(urls_to_visit, n + 1, Len(urls_to_visit))

\* C19: Frontier growth rule. A link is appended to the frontier only when it
\* came from a recorded page of depth d < max_depth, is not visited, is not the
\* URL of a frontier entry and passes _should_visit_url, and it is appended with
\* depth d + 1; at every round boundary the frontier has no two entries with one
\* URL, no visited URL and, apart from the seed, only admitted URLs with depth
\* in 1..max_depth.
C19_FrontierGrowth ==
    /\ [](RoundBoundary => FrontierWellFormed)
    /\ [][AppendRule]_vars

\* a round of two pages that share a link has been routed: the link is queued once
C19_Witness ==
    /\ pc = "loop"
    /\ \E p \in DOMAIN pages_data, q \in DOMAIN pages_data :
          /\ p # q
          /\ p \in DispatchedUrls /\ q \in DispatchedUrls
          /\ DispatchDepth(p) = 1 /\ DispatchDepth(q) = 1
          /\ \E k \in 1..Len(urls_to_visit) :
                /\ urls_to_visit[k].depth = 2
                /\ InSeq(urls_to_visit[k].url, pages_data[p].internal_links)
                /\ InSeq(urls_to_visit[k].url, pages_data[q].internal_links)

\* the message of line 211 for a Content-Type header value
NotHtmlMessage(ct) == "Not HTML content: " \o ct

\* the response arrived (session.get did not raise) with a header that is not HTML
AnsweredNotHtml(r) == r.exc_at # "get" /\ ~IsHtmlType(r.content_type)

\* C20: Content-type skip. A response whose Content-Type does not contain
\* text/html, compared without regard to case and with an absent header counting
\* as not HTML, is recorded in errors as a not-HTML error, yields no page and no
\* candidate links, and does not stop the crawl; a header that contains
\* text/html in any case is not recorded as not HTML.
C20_ContentTypeSkip ==
    /\ \A i \in 1..Len(tasks) :
          (tasks[i].state = "done" /\ AnsweredNotHtml(served[tasks[i].url])) =>
              /\ tasks[i].result.page_data = None
              /\ tasks[i].result.new_urls = <<>>
              /\ tasks[i].result.error = Some(NotHtmlMessage(served[tasks[i].url].content_type))
    /\ (\E u \in DOMAIN served : AnsweredNotHtml(served[u])) => pc # "raised"
    /\ RoundBoundary =>
          \A u \in DOMAIN served :
              /\ AnsweredNotHtml(served[u]) =>
                    /\ u \in DOMAIN error_urls
                    /\ error_urls[u] = NotHtmlMessage(served[u].content_type)
                    /\ u \notin DOMAIN pages_data
                    /\ u \notin DOMAIN site_structure
                    /\ \A v \in DOMAIN served :
                          AnsweredHtml(served[v], 200) => v \in DOMAIN pages_data
              /\ (served[u].exc_at = "none" /\ IsHtmlType(served[u].content_type)) =>
                    (u \in DOMAIN error_urls =>
                        error_urls[u] # NotHtmlMessage(served[u].content_type))

\* a response without a Content-Type header was skipped, a response with the
\* header Text/HTML was not, and a URL fetched after the skipped one is a page
C20_Witness ==
    /\ pc = "returned"
    /\ \E u \in DOMAIN error_urls, v \in DOMAIN error_urls, w \in DOMAIN pages_data :
          /\ served[u].exc_at = "none" /\ served[u].content_type = ""
          /\ error_urls[u] = NotHtmlMessage("")
          /\ served[v].content_type = "Text/HTML"
          /\ error_urls[v] = "HTTP status 500"
          /\ \E i, j \in 1..Len(dispatched) :
                i < j /\ dispatched[i].url = u /\ dispatched[j].url = w

\* C21: Exact origin match. _should_visit_url(url, origin) returns true only if
\* the scheme and the host of url are exactly those of origin; a URL whose host
\* only has the origin's host as a string prefix (https://example.com.evil.org/
\* with origin https://example.com) is rejected.
C21_ExactOriginMatch ==
    (probe.op = "should_visit_url" /\ probe.out = TRUE) =>
        /\ UrlScheme(probe.url) = UrlScheme(probe.origin)
        /\ UrlNetloc(probe.url) = UrlNetloc(probe.origin)

\* urlparse(url).path: what follows the host, up to a query string or fragment
UrlPath(url) ==
    IF Len(url) >= 2 /\ url[2] = "://"
    THEN SubSeq(url, FirstOf(url, 3, {"/", "?", "#"}), FirstOf(url, 3, {"?", "#"}) - 1)
    ELSE SubSeq(url, 1, FirstOf(url, 1, {"?", "#"}) - 1)

\* C22: Extension denylist on the path. _should_visit_url returns false for
\* every URL whose path, the part before any '?' query string, ends with a
\* denylisted extension, also when a query string follows the path.
C22_ExtensionDenylistOnPath ==
    (/\ probe.op = "should_visit_url"
     /\ \E ext \in skip_extensions : EndsWith(Lower(UrlPath(probe.url)), ext))
    => probe.out = FALSE

\* the <script type="application/ld+json"> blocks of a document, in document order
LdJsonBlocks(doc) ==
    SelectSeq(doc, LAMBDA n : n.tag = "script" /\ n.type = "application/ld+json")

\* C23: Structured data. For every recorded page schema_org holds, in document
\* order, the parsed value of every ld+json script block of the page's HTML
\* whose text is valid JSON; blocks that fail to parse are left out, and a page
\* answered with HTML 200 is recorded whatever its blocks are.
C23_StructuredData ==
    /\ \A u \in DOMAIN pages_data :
          LET valid == SelectSeq(LdJsonBlocks(parse(pages_data[u].html)),
                                 LAMBDA n : json_loads(n.value) # None)
          IN  pages_data[u].schema_org =
                  [i \in 1..Len(valid) |-> json_loads(valid[i].value)[1]]
    /\ RoundBoundary =>
          \A u \in DOMAIN served :
              AnsweredHtml(served[u], 200) => u \in DOMAIN pages_data

\* the elements of a document with the given tag, in document order
ElementsOf(doc, tag) == SelectSeq(doc, LAMBDA n : n.tag = tag)

\* C24: Headings. For every recorded page h1s (h2s) is the sequence of trimmed
\* texts of all H1 (H2) elements of the page's HTML in document order with
\* duplicates kept, headings inside header, footer or nav included.
C24_Headings ==
    \A u \in DOMAIN pages_data :
        LET doc == parse(pages_data[u].html)
            h1 == ElementsOf(doc, "h1")
            h2 == ElementsOf(doc, "h2")
        IN  /\ pages_data[u].h1s = [i \in 1..Len(h1) |-> Strip(h1[i].value)]
            /\ pages_data[u].h2s = [i \in 1..Len(h2) |-> Strip(h2[i].value)]

\* C25: Content extraction leaves the parse tree unchanged. After
\* _extract_content has run, the parsed document holds every element it held
\* before, script, style, header, footer and nav subtrees included.
C25_ContentExtractionFrame ==
    probe.op = "extract_content" => probe.soup = probe.before

\* C26: Link list invariant. For every recorded page no element of
\* internal_links or external_links contains '#', every element of
\* internal_links starts with the crawl origin string and no element of
\* external_links does, and neither list holds the same string twice.
C26_LinkListInvariant ==
    \A u \in DOMAIN pages_data :
        LET pd == pages_data[u]
        IN  /\ \A i \in 1..Len(pd.internal_links) :
                  /\ ~Contains(pd.internal_links[i], "#")
                  /\ StartsWith(pd.internal_links[i], base_url)
            /\ \A i \in 1..Len(pd.external_links) :
                  /\ ~Contains(pd.external_links[i], "#")
                  /\ ~StartsWith(pd.external_links[i], base_url)
            /\ NoDuplicates(pd.internal_links)
            /\ NoDuplicates(pd.external_links)

\* the home page, which links /about twice (once with a fragment) and an
\* external site, has been recorded
C26_Witness ==
    /\ Home \in DOMAIN pages_data
    /\ pages_data[Home].html = HtmlPage(Home).html
    /\ \E k \in 1..Len(parse(pages_data[Home].html)) :
          parse(pages_data[Home].html)[k].value = AboutFrag
    /\ InSeq(About, pages_data[Home].internal_links)
    /\ InSeq(Other, pages_data[Home].external_links)

\* C27: Site structure. In every reachable state site_structure has the keys of
\* pages, site_structure[url] is the sequence of the page's internal_links that
\* start with the origin, in order, which is the whole internal_links list, and
\* no URL recorded in errors has a site_structure entry.
C27_SiteStructure ==
    /\ DOMAIN site_structure = DOMAIN pages_data
    /\ \A u \in DOMAIN site_structure :
          /\ site_structure[u] =
                 SelectSeq(pages_data[u].internal_links, LAMBDA link : StartsWith(link, base_url))
          /\ site_structure[u] = pages_data[u].internal_links
    /\ DOMAIN error_urls \cap DOMAIN site_structure = {}

\* two pages with links and an error have been recorded
C27_Witness ==
    /\ Cardinality({u \in DOMAIN site_structure : site_structure[u] # <<>>}) >= 2
    /\ DOMAIN error_urls # {}

\* every entry of the dict before the step is in the dict after it, unchanged
Kept(before, after) ==
    \A k \in DOMAIN before : k \in DOMAIN after /\ after[k] = before[k]

\* C28: No update in place. Once pages[url], errors[url] or site_structure[url]
\* has been written it is never overwritten or removed, and a URL once in the
\* visited set stays there: the three maps and the visited set only grow.
C28_NoUpdateInPlace ==
    [][/\ Kept(pages_data, pages_data')
       /\ Kept(error_urls, error_urls')
       /\ Kept(site_structure, site_structure')
       /\ visited_urls \subseteq visited_urls'
      ]_vars

\* three rounds of one worker each have been routed: pages and errors were
\* written in different rounds
C28_Witness ==
    /\ pc = "loop"
    /\ cfg.max_concurrent_requests = 1
    /\ rounds = 3
    /\ Cardinality(DOMAIN pages_data) = 2
    /\ Cardinality(DOMAIN error_urls) = 1
    /\ Cardinality(visited_urls) = 3

\* position of an event in a trace (0 if it did not occur)
RECURSIVE PositionOf(_, _, _)
PositionOf(trace, i, event) ==
    IF i > Len(trace) THEN 0
    ELSE IF trace[i] = event THEN i
    ELSE PositionOf(trace, i + 1, event)

\* C29: Load-time stamping order. For every page a worker returns, the end
\* timestamp of load_time_ms is taken after the response body has been fully
\* read: request start, body fully read, load_time_ms computed, in that order.
C29_LoadTimeStamping ==
    \A i \in 1..Len(tasks) :
        (tasks[i].state = "done" /\ tasks[i].result.page_data # None) =>
            /\ PositionOf(tasks[i].trace, 1, "request_start") >= 1
            /\ PositionOf(tasks[i].trace, 1, "request_start")
                   < PositionOf(tasks[i].trace, 1, "body_read")
            /\ PositionOf(tasks[i].trace, 1, "body_read")
                   < PositionOf(tasks[i].trace, 1, "load_time_ms")

NonDecreasingDepths(entries) ==
    \A i, j \in 1..Len(entries) : i < j => entries[i].depth <= entries[j].depth

\* the depths of the recorded pages that list url as an internal link and were
\* dispatched before the n-th dispatch
ListingDepths(url, n) ==
    {dispatched[k].depth : k \in {j \in 1..Min(n - 1, Len(dispatched)) :
        /\ dispatched[j].url \in DOMAIN pages_data
        /\ InSeq(url, pages_data[dispatched[j].url].internal_links)}}

\* d is 1 plus the smallest member of the non-empty set depths
OneMoreThanSmallest(d, depths) ==
    /\ d - 1 \in depths
    /\ \A e \in depths : d - 1 <= e

\* C31: Breadth-first order. At every round boundary the depths of the frontier
\* entries do not decrease from head to tail and head and tail differ by at
\* most 1; URLs are dispatched in non-decreasing depth order; and the depth of
\* every URL other than the seed is 1 plus the smallest depth of the recorded
\* pages that list it as an internal link and were processed before it.
C31_BreadthFirstOrder ==
    RoundBoundary =>
        /\ NonDecreasingDepths(urls_to_visit)
        /\ urls_to_visit # <<>> =>
              urls_to_visit[Len(urls_to_visit)].depth - urls_to_visit[1].depth <= 1
        /\ NonDecreasingDepths(dispatched)
        /\ \A n \in 1..Len(dispatched) :
              dispatched[n].depth >= 1 =>
                  OneMoreThanSmallest(dispatched[n].depth,
                                      ListingDepths(dispatched[n].url, n))
        /\ \A k \in 1..Len(urls_to_visit) :
              urls_to_visit[k].depth >= 1 =>
                  OneMoreThanSmallest(urls_to_visit[k].depth,
                                      ListingDepths(urls_to_visit[k].url, Len(dispatched) + 1))

\* the frontier holds entries of depth 1 and of depth 2, one of them listed by
\* the page of depth 1 that has been recorded
C31_Witness ==
    /\ pc = "loop"
    /\ \E j, k \in 1..Len(urls_to_visit) :
          urls_to_visit[j].depth = 1 /\ urls_to_visit[k].depth = 2
    /\ \E n \in 1..Len(dispatched), k \in 1..Len(urls_to_visit) :
          /\ dispatched[n].depth = 1
          /\ dispatched[n].url \in DOMAIN pages_data
          /\ InSeq(urls_to_visit[k].url, pages_data[dispatched[n].url].internal_links)
          /\ urls_to_visit[k].depth = 2

\* C32: Bounded overshoot. For max_pages >= 1 and max_concurrent_requests >= 1
\* the number of pages is at most max_pages - 1 + max_concurrent_requests in
\* every reachable state, and at most max_pages - 1 whenever a round is begun.
C32_BoundedOvershoot ==
    PositiveLimits =>
        /\ Cardinality(DOMAIN pages_data)
               <= cfg.max_pages - 1 + cfg.max_concurrent_requests
        /\ pc = "gather" => Cardinality(DOMAIN pages_data) <= cfg.max_pages - 1
        /\ Len(tasks) <= cfg.max_concurrent_requests

\* the bound is attained above the budget: a round of two workers was begun one
\* page short of max_pages and recorded two pages
C32_Witness ==
    /\ pc = "loop"
    /\ cfg.max_concurrent_requests = 2
    /\ cfg.max_pages = 2
    /\ Cardinality(DOMAIN pages_data) = 3

\* C33: Crawl completeness. When crawl returns with fewer pages than max_pages
\* (and max_concurrent_requests >= 1), the frontier is empty and every internal
\* link of every recorded page of depth d < max_depth that passes
\* _should_visit_url is in the visited set and was dispatched to a worker.
C33_CrawlCompleteness ==
    (/\ pc = "returned"
     /\ cfg.max_concurrent_requests >= 1
     /\ Cardinality(DOMAIN pages_data) < cfg.max_pages)
    => /\ urls_to_visit = <<>>
       /\ \A u \in DOMAIN pages_data :
             DispatchDepth(u) < cfg.max_depth =>
                 \A k \in 1..Len(pages_data[u].internal_links) :
                     should_visit_url(pages_data[u].internal_links[k], base_url) =>
                         /\ pages_data[u].internal_links[k] \in visited_urls
                         /\ pages_data[u].internal_links[k] \in DispatchedUrls

\* a crawl of one worker per round has returned below its budget after fetching
\* both links of the home page, one of which failed
C33_Witness ==
    /\ pc = "returned"
    /\ cfg.max_concurrent_requests = 1
    /\ cfg.max_depth = 1
    /\ Cardinality(DOMAIN pages_data) = 2
    /\ cfg.max_pages = 3
    /\ visited_urls = {Home, About, Contact}
    /\ pages_data[Home].internal_links # <<>>

\* C34: Only successful responses become pages. Every PageData in pages has a
\* status_code below 400, the status of a response whose body was read and whose
\* Content-Type contained text/html; every key of pages_by_status_code is
\* below 400.
C34_OnlySuccessfulPages ==
    /\ \A u \in DOMAIN pages_data :
          /\ pages_data[u].status_code < 400
          /\ u \in DOMAIN served
          /\ served[u].exc_at = "none"
          /\ IsHtmlType(served[u].content_type)
          /\ served[u].status = pages_data[u].status_code
    /\ pc = "returned" =>
          \A code \in DOMAIN result[1].crawl_stats.pages_by_status_code : code < 400

\* a crawl has returned a page although other URLs answered with HTML and
\* status 404 and with a PDF and status 200
C34_Witness ==
    /\ pc = "returned"
    /\ DOMAIN result[1].pages # {}
    /\ \E u \in DOMAIN served, v \in DOMAIN served :
          /\ AnsweredHtml(served[u], 404)
          /\ served[v].content_type = "application/pdf" /\ served[v].status = 200

\* the seed contains '#', ends with a denylisted extension, or has no scheme
\* and host
InadmissibleSeed ==
    \/ Contains(cfg.start_url, "#")
    \/ \E ext \in skip_extensions : EndsWith(Lower(cfg.start_url), ext)
    \/ UrlScheme(cfg.start_url) = <<>> /\ UrlNetloc(cfg.start_url) = <<>>

\* C35: Inadmissible seed. When the seed fails _should_visit_url (it contains
\* '#', ends with a denylisted extension, or has no scheme and host) and
\* max_pages >= 1 and max_concurrent_requests >= 1, crawl issues no fetch and
\* does not raise, and the CrawlResult it returns has empty pages, errors and
\* site_structure and total_pages_crawled = total_errors = 0.
C35_InadmissibleSeed ==
    (InadmissibleSeed /\ PositiveLimits) =>
        /\ pc # "raised"
        /\ dispatched = <<>>
        /\ tasks = <<>>
        /\ served = EmptyDict
        /\ rounds <= 1
        /\ pc = "returned" =>
              /\ rounds = 1
              /\ DOMAIN result[1].pages = {}
              /\ DOMAIN result[1].errors = {}
              /\ DOMAIN result[1].site_structure = {}
              /\ result[1].crawl_stats.total_pages_crawled = 0
              /\ result[1].crawl_stats.total_errors = 0

\* a crawl seeded with a URL that has a fragment has returned
C35_Witness ==
    /\ pc = "returned"
    /\ cfg.start_url = AboutFrag
    /\ Contains(cfg.start_url, "#")
    /\ PositiveLimits
    /\ visited_urls = {}

\* the coroutines of the round that have not entered the semaphore yet
Pending == {i \in 1..Len(tasks) : tasks[i].state = "pending"}

\* C36: Semaphore never contended. Once the semaphore exists, the workers of a
\* round are at most the batch, which is at most max_concurrent_requests; the
\* free permits are never below 0 and are max_concurrent_requests less the
\* workers in flight; a worker that has not entered the semaphore finds a free
\* permit; and after every round all permits are free.
C36_SemaphoreUncontended ==
    pc \in {"loop", "gather", "returned"} =>
        /\ Len(tasks) <= Len(current_batch)
        /\ Len(current_batch) <= cfg.max_concurrent_requests
        /\ semaphore >= 0
        /\ semaphore = cfg.max_concurrent_requests - Cardinality(InFlight)
        /\ Pending # {} => semaphore > 0
        /\ RoundBoundary => semaphore = cfg.max_concurrent_requests /\ tasks = <<>>

\* all permits are taken by a full round of three workers, and two rounds have
\* been routed before
C36_Witness ==
    /\ pc = "gather"
    /\ cfg.max_concurrent_requests = 3
    /\ Len(tasks) = 3
    /\ Cardinality(InFlight) = 3
    /\ semaphore = 0
    /\ rounds >= 2

====
